---- MODULE Spec2Model ----
(***************************************************************************)
(* Info Hunter: the rate limiters, the retrying fetcher, deduplication     *)
(* and change detection, the ingestion run, the enrichment and embedding   *)
(* jobs and the RAG answering engine, as state machines.                   *)
(*                                                                         *)
(* The module holds one specification per component:                       *)
(*   SpecLimiter / FairLimiter  AIRateLimiter.acquire (app/ai/rate_limit)  *)
(*   SpecKeys                   generate_dedupe_key (app/utils/dedupe)     *)
(*   SpecHash                   generate_content_hash (app/utils/dedupe)   *)
(*   Spec                       ingest beside enrich_knowledge_item        *)
(*   SpecRace                   two concurrent ingest runs                 *)
(*   SpecJobs                   enrich and embed jobs beside ingest        *)
(*   SpecAsk                    ask_question (app/api/ask)                 *)
(*   SpecFetch                  fetch_url (app/utils/http_client)          *)
(*   SpecFetchRace              fetch_url called from two threads          *)
(*   SpecIngest                 ingest alone, from an empty store          *)
(*   SpecUpdate                 ingest over an existing record             *)
(*   SpecSchema                 KnowledgeItemEnrichment (app/ai/schemas)   *)
(*   SpecQuery                  build_search_query (app/api/search)        *)
(*   SpecRoutes                 the routes that need the AI provider       *)
(* Each specification moves its own variables and keeps the others at      *)
(* their initial values.                                                   *)
(***************************************************************************)
EXTENDS Integers, Sequences, FiniteSets, TLC

VARIABLES
    \* AIRateLimiter (one instance) and its concurrent callers
    clock,        \* time.time(), in ticks
    requests,     \* self.requests: the timestamps kept by the limiter
    lock,         \* self.lock: 0 when free, else the caller holding it
    pc,           \* per caller: "idle", "acquire", "sleeping", "returned"
    wakeAt,       \* per caller: the time its asyncio.sleep ends
    depth,        \* per caller: nesting depth of acquire() frames
    granted,      \* history: the timestamps recorded by calls that returned
    \* generate_dedupe_key applied to two URLs
    dkIn, dkOut,
    \* generate_content_hash applied to two items
    chIn, chOut,
    \* the store, the search index and the background tasks
    store,        \* id -> KnowledgeItem row (committed state)
    index,        \* id -> search document
    runs,         \* per ingestion worker: the state of its ingest() call
    prevRun,      \* history: the list and the cleanness of the last finished run
    enr,          \* per enrichment worker: the state of its job
    emb,          \* per embedding worker: the state of its job
    aiCommits,    \* history: the ids whose AI fields an enrichment commit set
    \* ask_question
    ask,
    \* fetch_url and the per-domain RateLimiter
    fetch,          \* per caller: the state of its fetch_url call
    domainRequests, \* RateLimiter.requests[domain]
    fclock,
    sent,           \* history: every HTTP request sent, and whether it was recorded
    \* KnowledgeItemEnrichment on one reply
    kiIn, kiOut,
    \* build_search_query on one set of arguments
    sqIn, sqOut,
    \* one request to the API and its response
    http

limVars   == <<clock, requests, lock, pc, wakeAt, depth, granted>>
keyVars   == <<dkIn, dkOut>>
hashVars  == <<chIn, chOut>>
storeVars == <<store, index, runs, prevRun, enr, emb, aiCommits>>
askVars   == <<ask>>
fetchVars == <<fetch, domainRequests, fclock, sent>>
schemaVars == <<kiIn, kiOut>>
queryVars == <<sqIn, sqOut>>
routeVars == <<http>>
vars == <<limVars, keyVars, hashVars, storeVars, askVars, fetchVars, schemaVars, queryVars, routeVars>>

Min(S) == CHOOSE x \in S : \A y \in S : x <= y
Max2(a, b) == IF a >= b THEN a ELSE b

(***************************************************************************)
(* Strings.  A string is a sequence of runs [c, n]: the character c        *)
(* repeated n >= 1 times, no two neighbouring runs with the same           *)
(* character.  Every string has exactly one such form, so equality of      *)
(* strings is equality of their run sequences, and strings longer than     *)
(* the 500-character key limit stay small values.                          *)
(***************************************************************************)
Run(c, n) == [c |-> c, n |-> n]
Str1(c)   == <<Run(c, 1)>>
EmptyStr  == <<>>

RECURSIVE StrLen(_)
StrLen(s) == IF s = <<>> THEN 0 ELSE Head(s).n + StrLen(Tail(s))

\* s with one more run at its end, merged into the last run when the
\* characters agree.
AppendRun(s, r) ==
    IF s # <<>> /\ s[Len(s)].c = r.c
    THEN [s EXCEPT ![Len(s)] = Run(r.c, s[Len(s)].n + r.n)]
    ELSE Append(s, r)

\* The string written by a sequence of runs that may repeat a character.
RECURSIVE Canon(_)
Canon(rs) == IF rs = <<>> THEN <<>>
             ELSE AppendRun(Canon(SubSeq(rs, 1, Len(rs) - 1)), rs[Len(rs)])

Concat(s, t) == Canon(s \o t)

\* str.lower() on the model's alphabet.
LowerChar(c) == CASE c = "A" -> "a"
                  [] c = "B" -> "b"
                  [] OTHER   -> c
UpperChar(c) == CASE c = "a" -> "A"
                  [] c = "b" -> "B"
                  [] OTHER   -> c

\* A mutant of Lower: the URL is not lower-cased.
Lower_keepCase(s) == s

Lower(s) == Canon([i \in 1..Len(s) |-> Run(LowerChar(s[i].c), s[i].n)])

\* source_url.rstrip('/')
RECURSIVE RStripSlash(_)
RStripSlash(s) ==
    IF s # <<>> /\ s[Len(s)].c = "/"
    THEN RStripSlash(SubSeq(s, 1, Len(s) - 1))
    ELSE s

\* hashlib.sha256(...).hexdigest(), taken as injective: the digest of s is
\* a value that determines s.
Sha256(s) == [kind |-> "sha256", of |-> s]
Raw(s)    == [kind |-> "raw", of |-> s]

DedupeKeyMaxLen == 500
KeySep == <<Run(":", 2)>>

\* generate_dedupe_key(source_type, source_url)
generate_dedupe_key(source_type, source_url) ==
    LET normalized_url == Lower(RStripSlash(source_url))
        key_string     == Concat(Concat(source_type, KeySep), normalized_url)
    IN  IF StrLen(key_string) <= DedupeKeyMaxLen
        THEN Raw(key_string)
        ELSE Sha256(key_string)

PartSep == <<Run("|", 3)>>

\* f"{snippet.get('language', '')}::{snippet.get('code', '')}"
SnippetStr(snippet) == Concat(Concat(snippet.language, KeySep), snippet.code)

\* content_parts of generate_content_hash: title, body_text, then one
\* string per snippet.
ContentParts(title, body_text, code_snippets) ==
    <<title, body_text>> \o
    [i \in 1..Len(code_snippets) |-> SnippetStr(code_snippets[i])]

\* "|||".join(parts)
RECURSIVE Join(_)
Join(parts) ==
    IF Len(parts) = 0 THEN EmptyStr
    ELSE IF Len(parts) = 1 THEN parts[1]
    ELSE Concat(Concat(parts[1], PartSep), Join(Tail(parts)))

\* generate_content_hash(title, body_text, code_snippets)
generate_content_hash(title, body_text, code_snippets) ==
    Sha256(Join(ContentParts(title, body_text, code_snippets)))

(***************************************************************************)
(* AIRateLimiter (app/ai/rate_limit.py).  The callers are asyncio tasks of *)
(* one event loop: the code between two awaits is one step.                *)
(***************************************************************************)
NumCallers     == 3
MaxClock       == 3
max_requests   == 2
window_seconds == 2

Callers == 1..NumCallers

InitLimiter ==
    /\ clock = 0
    /\ requests = <<>>
    /\ lock = 0
    /\ pc = [p \in Callers |-> "idle"]
    /\ wakeAt = [p \in Callers |-> 0]
    /\ depth = [p \in Callers |-> 0]
    /\ granted = <<>>

\* [req_time for req_time in self.requests if req_time > window_start]
InWindow(reqs, now) == SelectSeq(reqs, LAMBDA t : t > now - window_seconds)

\* A mutant of UnderLimit: the comparison admits one request too many.
UnderLimit_offByOne(reqs) == Len(reqs) <= max_requests

\* len(self.requests) < self.max_requests
UnderLimit(reqs) == Len(reqs) < max_requests

SeqMin(s) == Min({s[i] : i \in 1..Len(s)})

\* max(0, oldest_request + window_seconds - now)
WaitSeconds(reqs, now) == Max2(0, SeqMin(reqs) + window_seconds - now)

\* A task calls acquire(): it reaches "async with self.lock".
Call(p) ==
    /\ pc[p] \in {"idle", "returned"}
    /\ pc' = [pc EXCEPT ![p] = "acquire"]
    /\ depth' = [depth EXCEPT ![p] = 0]
    /\ UNCHANGED <<clock, requests, lock, wakeAt, granted>>
    /\ UNCHANGED <<keyVars, hashVars, storeVars, askVars, fetchVars, schemaVars, queryVars, routeVars>>

\* The body of acquire() from taking the lock to its return or its sleep.
\* asyncio.Lock is not reentrant: the lock is taken only when free, also by
\* the task that holds it.  A return leaves "async with" and frees the lock;
\* the sleep keeps it.
Enter(p) ==
    /\ pc[p] = "acquire"
    /\ lock = 0
    /\ LET now  == clock
           kept == InWindow(requests, now)
       IN  IF UnderLimit(kept)
           THEN /\ requests' = Append(kept, now)
                /\ granted' = Append(granted, now)
                /\ lock' = 0
                /\ pc' = [pc EXCEPT ![p] = "returned"]
                /\ depth' = [depth EXCEPT ![p] = 0]
                /\ UNCHANGED wakeAt
           ELSE IF kept # <<>> /\ WaitSeconds(kept, now) > 0
           THEN /\ requests' = kept
                /\ lock' = p
                /\ pc' = [pc EXCEPT ![p] = "sleeping"]
                /\ wakeAt' = [wakeAt EXCEPT ![p] = now + WaitSeconds(kept, now)]
                /\ UNCHANGED <<granted, depth>>
           ELSE /\ requests' = Append(kept, now)
                /\ granted' = Append(granted, now)
                /\ lock' = 0
                /\ pc' = [pc EXCEPT ![p] = "returned"]
                /\ depth' = [depth EXCEPT ![p] = 0]
                /\ UNCHANGED wakeAt
    /\ UNCHANGED clock
    /\ UNCHANGED <<keyVars, hashVars, storeVars, askVars, fetchVars, schemaVars, queryVars, routeVars>>

\* asyncio.sleep(wait_seconds) is over: "return await self.acquire()" calls
\* acquire() again from inside "async with self.lock".
Wake(p) ==
    /\ pc[p] = "sleeping"
    /\ clock >= wakeAt[p]
    /\ pc' = [pc EXCEPT ![p] = "acquire"]
    /\ depth' = [depth EXCEPT ![p] = depth[p] + 1]
    /\ UNCHANGED <<clock, requests, lock, wakeAt, granted>>
    /\ UNCHANGED <<keyVars, hashVars, storeVars, askVars, fetchVars, schemaVars, queryVars, routeVars>>

\* Time passes.  The clock runs on past MaxClock for as long as a sleeper
\* has not reached its wake-up time.
Tick ==
    /\ \/ clock < MaxClock
       \/ \E p \in Callers : pc[p] = "sleeping" /\ wakeAt[p] > clock
    /\ clock' = clock + 1
    /\ UNCHANGED <<requests, lock, pc, wakeAt, depth, granted>>
    /\ UNCHANGED <<keyVars, hashVars, storeVars, askVars, fetchVars, schemaVars, queryVars, routeVars>>

LimiterNext ==
    \/ \E p \in Callers : Call(p)
    \/ \E p \in Callers : Enter(p)
    \/ \E p \in Callers : Wake(p)
    \/ Tick

(***************************************************************************)
(* generate_dedupe_key on two URLs that differ only in the case of their   *)
(* letters and in the number of their trailing slashes: both are written   *)
(* from one lower-case base, each with its own choice of the runs put in   *)
(* upper case and its own number of slashes added at the end.              *)
(***************************************************************************)
MaxUrlRuns == 2
MaxSlashes == 1

\* With a source type of one letter and "::", a run of DedupeKeyMaxLen - 4
\* letters gives a key string one short of the limit.
RunLens     == {1, 2, DedupeKeyMaxLen - 4}
UrlChars    == {"a", "/"}
UrlRuns     == {Run(c, n) : c \in UrlChars, n \in RunLens}
UrlBases    == UNION {[1..k -> UrlRuns] : k \in 0..MaxUrlRuns}
SourceTypes == {Str1("r"), Str1("g")}

Slashes(k) == IF k = 0 THEN <<>> ELSE <<Run("/", k)>>

\* The base with the runs of `upper` in upper case and k slashes appended.
Variant(base, upper, k) ==
    Canon([i \in 1..Len(base) |->
              Run(IF upper[i] THEN UpperChar(base[i].c) ELSE base[i].c, base[i].n)]
          \o Slashes(k))

InitKeys ==
    /\ \E st \in SourceTypes, base \in UrlBases :
       \E up1 \in [1..Len(base) -> BOOLEAN], up2 \in [1..Len(base) -> BOOLEAN] :
       \E k1 \in 0..MaxSlashes, k2 \in 0..MaxSlashes :
          dkIn = [source_type |-> st,
                  url1 |-> Variant(base, up1, k1),
                  url2 |-> Variant(base, up2, k2)]
    /\ dkOut = <<>>

IdleKeys ==
    /\ dkIn = [source_type |-> Str1("r"), url1 |-> EmptyStr, url2 |-> EmptyStr]
    /\ dkOut = <<>>

KeyApply ==
    /\ dkOut = <<>>
    /\ dkOut' = <<generate_dedupe_key(dkIn.source_type, dkIn.url1),
                  generate_dedupe_key(dkIn.source_type, dkIn.url2)>>
    /\ UNCHANGED dkIn
    /\ UNCHANGED <<limVars, hashVars, storeVars, askVars, fetchVars, schemaVars, queryVars, routeVars>>

(***************************************************************************)
(* generate_content_hash on two items.                                     *)
(***************************************************************************)
MaxHashSnippets == 1

HashStrs     == {EmptyStr, Str1("|"), Str1(":")}
HashSnippets == [language : HashStrs, code : HashStrs, context : {"c1", "c2"}]
HashItems    == [title : HashStrs, body_text : HashStrs,
                 code_snippets : UNION {[1..k -> HashSnippets] : k \in 0..MaxHashSnippets}]

InitHash ==
    /\ chIn \in [a : HashItems, b : HashItems]
    /\ chOut = <<>>

IdleHash ==
    /\ chIn = [a |-> [title |-> EmptyStr, body_text |-> EmptyStr, code_snippets |-> <<>>],
               b |-> [title |-> EmptyStr, body_text |-> EmptyStr, code_snippets |-> <<>>]]
    /\ chOut = <<>>

HashOf(item) == generate_content_hash(item.title, item.body_text, item.code_snippets)

HashApply ==
    /\ chOut = <<>>
    /\ chOut' = <<HashOf(chIn.a), HashOf(chIn.b)>>
    /\ UNCHANGED chIn
    /\ UNCHANGED <<limVars, keyVars, storeVars, askVars, fetchVars, schemaVars, queryVars, routeVars>>

(***************************************************************************)
(* The store (KnowledgeItem rows), the search index and the tasks that     *)
(* write them: ingestion runs (BaseConnector.ingest), enrichment jobs      *)
(* (enrich_knowledge_item) and embedding jobs (embed_knowledge_item).      *)
(* Each task has its own database session; a step is the code between two  *)
(* accesses to the store, the provider or the index.                       *)
(***************************************************************************)
MaxList    == 2      \* items returned by one fetch_items()
MaxEntries == 2      \* code_snippets entries in a provider reply
max_retries == 3     \* @celery_app.task(..., max_retries=3)

Workers    == {"w1", "w2"}    \* ingestion tasks; Spec runs "w1" alone
SoloWorker == {"w1"}
EnrWorkers == {"e1"}
EmbWorkers == {"m1"}

\* A nullable column: NULL, or a value.
Null    == <<>>
Some(v) == <<v>>

\* What the extractors give for a raw item: body_text and code_snippets.
\* The extraction itself (app/extract) is outside the model.
Snip(l, c) == [language |-> Str1(l), code |-> Str1(c), context |-> "ctx"]
Content1 == [title |-> Str1("t"), body_text |-> Str1("x"),
             code_snippets |-> <<Snip("p", "k")>>]
Content2 == [title |-> Str1("u"), body_text |-> Str1("x"),
             code_snippets |-> <<Snip("p", "k"), Snip("j", "m")>>]

RawItem(url, c) == [source_url |-> url, title |-> c.title,
                    body_text |-> c.body_text, code_snippets |-> c.code_snippets]

UrlA      == Str1("a")
UrlASlash == <<Run("a", 1), Run("/", 1)>>
UrlB      == Str1("b")

\* What fetch_items() returns in Spec: lists of up to MaxList items of one
\* page, met under two spellings of its URL and with two contents.
RawItems == {RawItem(UrlA, Content1), RawItem(UrlASlash, Content2)}
RawLists == UNION {[1..k -> RawItems] : k \in 1..MaxList}

\* What fetch_items() returns in SpecRace: one item, of two pages.
RaceItems == RawItems \cup {RawItem(UrlB, Content1)}
RaceLists == {<<i>> : i \in RaceItems}

\* What fetch_items() returns in SpecJobs: one item and then the same item
\* again, its URL with a trailing slash.
JobsLists == {<<RawItem(UrlA, Content1), RawItem(UrlASlash, Content1)>>}

ConnectorSourceType == Str1("r")

\* BaseConnector.process_item: the KnowledgeItem built from a raw item.
process_item(raw) ==
    [source_url    |-> raw.source_url,
     title         |-> raw.title,
     body_text     |-> raw.body_text,
     code_snippets |-> raw.code_snippets,
     content_hash  |-> generate_content_hash(raw.title, raw.body_text, raw.code_snippets),
     dedupe_key    |-> generate_dedupe_key(ConnectorSourceType, raw.source_url)]

\* The row an INSERT of `item` creates: id from the column default, found_at
\* from the server default (the time of the insert, counted in inserts), the
\* AI columns and the embedding NULL.
NewRow(id, item, now) ==
    [id |-> id, found_at |-> now,
     source_url |-> item.source_url, title |-> item.title,
     body_text |-> item.body_text, code_snippets |-> item.code_snippets,
     content_hash |-> item.content_hash, dedupe_key |-> item.dedupe_key,
     ai_summary |-> Null, ai_tags |-> Null, ai_primary_language |-> Null,
     ai_framework |-> Null, ai_quality_score |-> Null, ai_extracted_at |-> Null,
     embedding |-> Null]

\* A mutant of UpdatedRow: the update resets found_at.
UpdatedRow_resetsFoundAt(row, item) ==
    [row EXCEPT !.source_url = item.source_url, !.title = item.title,
                !.body_text = item.body_text, !.code_snippets = item.code_snippets,
                !.content_hash = item.content_hash, !.dedupe_key = item.dedupe_key,
                !.found_at = 0]

\* A mutant of UpdatedRow: the update copies the new object's unset AI
\* summary over the stored one.
UpdatedRow_clearsSummary(row, item) ==
    [row EXCEPT !.source_url = item.source_url, !.title = item.title,
                !.body_text = item.body_text, !.code_snippets = item.code_snippets,
                !.content_hash = item.content_hash, !.dedupe_key = item.dedupe_key,
                !.ai_summary = Null]

\* "for key, value in item.__dict__.items(): setattr(existing, key, value)":
\* the attributes the constructor call of process_item set, id excepted.
UpdatedRow(row, item) ==
    [row EXCEPT !.source_url = item.source_url, !.title = item.title,
                !.body_text = item.body_text, !.code_snippets = item.code_snippets,
                !.content_hash = item.content_hash, !.dedupe_key = item.dedupe_key]

Ids == DOMAIN store

\* query(KnowledgeItem).filter(dedupe_key == key).first(): an id, or 0.
Lookup(key) ==
    LET found == {id \in Ids : store[id].dedupe_key = key}
    IN  IF found = {} THEN 0 ELSE Min(found)

\* A mutant of UniqueViolation: the column carries no unique constraint.
UniqueViolation_none(key) == FALSE

\* dedupe_key = Column(..., unique=True): an INSERT of a stored key fails.
UniqueViolation(key) == \E id \in Ids : store[id].dedupe_key = key

\* "item.ai_tags or []"
OrEmpty(column) == IF column = Null THEN <<>> ELSE column[1]

\* The document BaseConnector._index_item builds from a row.
IngestDoc(row) ==
    [id |-> row.id, source_url |-> row.source_url, title |-> row.title,
     body_text |-> row.body_text, code_snippets |-> row.code_snippets,
     ai_summary |-> row.ai_summary, ai_tags |-> OrEmpty(row.ai_tags),
     ai_primary_language |-> row.ai_primary_language,
     ai_framework |-> row.ai_framework,
     found_at |-> row.found_at, embedding |-> row.embedding]

ZeroStats == [fetched |-> 0, processed |-> 0, stored |-> 0, indexed |-> 0, skipped |-> 0]

\* A run's record.  clean: no other run has overlapped it and no commit of
\* it has failed, so far; repeat: it is clean and runs the list of the run
\* that finished right before it, itself clean; committed and indexWritten:
\* the commits and the index writes of the run that succeeded.  All four
\* are history.
IdleRun == [pc |-> "idle", list |-> <<>>, pos |-> 0, item |-> <<>>, existing |-> 0,
            stats |-> ZeroStats, clean |-> FALSE, repeat |-> FALSE,
            committed |-> 0, indexWritten |-> 0]

Active(w) == runs[w].pc \in {"lookup", "commit", "index"}

InitStore ==
    /\ store = <<>>
    /\ index = <<>>
    /\ runs = [w \in Workers |-> IdleRun]
    /\ prevRun = [list |-> <<>>, clean |-> FALSE]
    /\ enr = [e \in EnrWorkers |->
                [pc |-> "idle", id |-> 0, snap |-> <<>>, retries |-> 0, data |-> <<>>,
                 reply |-> "none", status |-> "none", wroteStore |-> FALSE,
                 wroteIndex |-> FALSE]]
    /\ emb = [m \in EmbWorkers |->
                [pc |-> "idle", id |-> 0, retries |-> 0, vec |-> <<>>,
                 status |-> "none", wroteIndex |-> FALSE]]
    /\ aiCommits = {}

\* ingest() starts: fetch_items() returned `list`.
StartRun(w, list) ==
    /\ runs[w].pc \in {"idle", "done"}
    /\ LET quiet == \A v \in Workers \ {w} : ~Active(v)
       IN  runs' = [v \in Workers |->
                     IF v = w
                     THEN [pc |-> "lookup", list |-> list, pos |-> 1, item |-> <<>>,
                           existing |-> 0,
                           stats |-> [ZeroStats EXCEPT !.fetched = Len(list)],
                           clean |-> quiet,
                           repeat |-> quiet /\ prevRun.clean /\ prevRun.list = list,
                           committed |-> 0, indexWritten |-> 0]
                     ELSE IF Active(v)
                     THEN [runs[v] EXCEPT !.clean = FALSE, !.repeat = FALSE]
                     ELSE runs[v]]
    /\ prevRun' = [list |-> <<>>, clean |-> FALSE]
    /\ UNCHANGED <<store, index, enr, emb, aiCommits>>
    /\ UNCHANGED <<limVars, keyVars, hashVars, askVars, fetchVars, schemaVars, queryVars, routeVars>>

\* The run record once the current item is dealt with: the next item, or
\* the end of the loop ("return stats").
Advance(r) ==
    IF r.pos < Len(r.list)
    THEN [r EXCEPT !.pc = "lookup", !.pos = r.pos + 1, !.item = <<>>, !.existing = 0]
    ELSE [r EXCEPT !.pc = "done", !.item = <<>>, !.existing = 0]

\* prevRun once the run record r has become r2: the run that ends is the
\* last finished run, clean when no other run overlapped it and no commit
\* of it failed.
PrevAfter(r2) ==
    IF r2.pc = "done"
    THEN [list |-> r2.list, clean |-> r2.clean]
    ELSE prevRun

\* A mutant of AfterFailure: the failure of one item ends the loop.
AfterFailure_aborts(r) ==
    [r EXCEPT !.pc = "done", !.item = <<>>, !.existing = 0,
              !.clean = FALSE, !.repeat = FALSE]

\* "except Exception: log; db_session.rollback(); continue": the run goes
\* on with the next item.
AfterFailure(r) == Advance([r EXCEPT !.clean = FALSE, !.repeat = FALSE])

\* What can go wrong before the commit: process_item fails (it catches the
\* error itself and returns None), or the lookup query raises.
LookupFaults == {"none", "process", "query"}

\* One pass of the loop up to the commit: process_item, the lookup by
\* dedupe_key, the comparison of the hashes and the stats it counts.
LookupStep(w, fault) ==
    /\ runs[w].pc = "lookup"
    /\ LET r        == runs[w]
           item     == process_item(r.list[r.pos])
           existing == Lookup(item.dedupe_key)
           counted  == [r EXCEPT !.stats.processed = @ + 1,
                                 !.item = item, !.existing = existing]
           r2 == IF fault = "process"
                 THEN Advance([r EXCEPT !.clean = FALSE, !.repeat = FALSE])
                 ELSE IF fault = "query"
                 THEN AfterFailure([r EXCEPT !.stats.processed = @ + 1])
                 ELSE IF existing # 0 /\ store[existing].content_hash = item.content_hash
                 THEN Advance([counted EXCEPT !.stats.skipped = @ + 1])
                 ELSE [counted EXCEPT !.stats.stored = @ + 1, !.pc = "commit"]
       IN  /\ runs' = [runs EXCEPT ![w] = r2]
           /\ prevRun' = PrevAfter(r2)
    /\ UNCHANGED <<store, index, enr, emb, aiCommits>>
    /\ UNCHANGED <<limVars, keyVars, hashVars, askVars, fetchVars, schemaVars, queryVars, routeVars>>

\* db_session.commit(): the INSERT of a new item or the UPDATE of the
\* existing row.  It raises when the store fails (dbFails) or the INSERT
\* breaks the unique constraint; the except clause rolls back and goes on
\* with the next item.
CommitStep(w, dbFails) ==
    /\ runs[w].pc = "commit"
    /\ LET r      == runs[w]
           raises == dbFails \/ (r.existing = 0 /\ UniqueViolation(r.item.dedupe_key))
           newId  == Len(store) + 1
           r2 == IF raises
                 THEN AfterFailure(r)
                 ELSE [r EXCEPT !.pc = "index", !.committed = @ + 1,
                                !.existing = IF r.existing = 0 THEN newId ELSE r.existing]
       IN  /\ store' = IF raises THEN store
                       ELSE IF r.existing = 0
                       THEN Append(store, NewRow(newId, r.item, newId))
                       ELSE [store EXCEPT ![r.existing] = UpdatedRow(@, r.item)]
           /\ runs' = [runs EXCEPT ![w] = r2]
           /\ prevRun' = PrevAfter(r2)
    /\ UNCHANGED <<index, enr, emb, aiCommits>>
    /\ UNCHANGED <<limVars, keyVars, hashVars, askVars, fetchVars, schemaVars, queryVars, routeVars>>

\* A search document put under an id.
PutDoc(idx, id, doc) ==
    [i \in DOMAIN idx \cup {id} |-> IF i = id THEN doc ELSE idx[i]]

\* self._index_item(search_client, item); stats['indexed'] += 1.
\* _index_item catches the failure of the index write itself.
IndexStep(w, indexOk) ==
    /\ runs[w].pc = "index"
    /\ LET r  == runs[w]
           r2 == Advance([r EXCEPT !.stats.indexed = @ + 1,
                                   !.indexWritten = IF indexOk THEN @ + 1 ELSE @])
       IN  /\ index' = IF indexOk
                       THEN PutDoc(index, r.existing, IngestDoc(store[r.existing]))
                       ELSE index
           /\ runs' = [runs EXCEPT ![w] = r2]
           /\ prevRun' = PrevAfter(r2)
    /\ UNCHANGED <<store, enr, emb, aiCommits>>
    /\ UNCHANGED <<limVars, keyVars, hashVars, askVars, fetchVars, schemaVars, queryVars, routeVars>>

\* ---- enrich_knowledge_item -------------------------------------------

\* What json.loads and KnowledgeItemEnrichment(**data) make of the reply:
\* "valid" is a JSON object that passes the schema, "bad_json" is no JSON,
\* "bad_schema" is a JSON object the schema rejects, "non_object" is JSON
\* that is no object (a list, a number, a string, null).
ReplyKinds == {"valid", "bad_json", "bad_schema", "non_object"}

\* Entry i of a reply; the entries of one reply differ in their intent.
Entry(i) == [intent |-> <<"intent", i>>, dependencies |-> <<"d">>, pitfalls |-> <<>>]

\* The validated replies: k snippet entries; of the two optional fields
\* one is given and one is not.
EnrichmentData ==
    {[summary |-> "s", tags |-> <<"t">>, primary_language |-> Some("py"),
      framework |-> Null, quality_score |-> 7, code_snippets |-> [i \in 1..k |-> Entry(i)]] :
        k \in 1..MaxEntries}

Replies == [kind : ReplyKinds, data : EnrichmentData]

\* A mutant of ParseOutcome: a reply the schema rejects is used all the same.
ParseOutcome_lenient(kind) ==
    CASE kind = "valid"      -> "ok"
      [] kind = "bad_json"   -> "error"
      [] kind = "bad_schema" -> "ok"
      [] kind = "non_object" -> "raised"

\* The parse-and-validate block: json.JSONDecodeError and ValueError (the
\* schema's ValidationError is one) are caught and reported as
\* {"status": "error"}; "**" applied to a value that is no mapping raises
\* TypeError, which only the outer handler catches: rollback, re-raise.
ParseOutcome(kind) ==
    CASE kind = "valid"      -> "ok"
      [] kind = "bad_json"   -> "error"
      [] kind = "bad_schema" -> "error"
      [] kind = "non_object" -> "raised"

\* dict(snippet) with the three enrichment keys set from `entry`.
Enriched(snippet, entry) ==
    [f \in DOMAIN snippet \cup {"intent", "dependencies", "pitfalls"} |->
        CASE f = "intent"       -> entry.intent
          [] f = "dependencies" -> entry.dependencies
          [] f = "pitfalls"     -> entry.pitfalls
          [] OTHER              -> snippet[f]]

\* A mutant of MergeSnippets: only the snippets that have an entry are kept.
MergeSnippets_truncates(snippets, entries) ==
    [i \in 1..Min({Len(snippets), Len(entries)}) |-> Enriched(snippets[i], entries[i])]

\* updated_snippets: entry i goes to snippet i.
MergeSnippets(snippets, entries) ==
    [i \in 1..Len(snippets) |->
        IF i <= Len(entries) THEN Enriched(snippets[i], entries[i]) ELSE snippets[i]]

\* The UPDATE of the enrichment commit: the columns the job assigned.
EnrichedRow(row, snap, data, stamp) ==
    [row EXCEPT !.ai_summary = Some(data.summary),
                !.ai_tags = Some(data.tags),
                !.ai_primary_language = data.primary_language,
                !.ai_framework = data.framework,
                !.ai_quality_score = Some(data.quality_score),
                !.ai_extracted_at = Some(stamp),
                !.code_snippets = MergeSnippets(snap.code_snippets, data.code_snippets)]

\* The document the job re-indexes: no "embedding" key.
EnrichDoc(row) ==
    [id |-> row.id, source_url |-> row.source_url, title |-> row.title,
     body_text |-> row.body_text, code_snippets |-> row.code_snippets,
     ai_summary |-> row.ai_summary, ai_tags |-> OrEmpty(row.ai_tags),
     ai_primary_language |-> row.ai_primary_language,
     ai_framework |-> row.ai_framework, found_at |-> row.found_at]

\* The queue delivers an enrichment job for a stored item.
EnrDeliver(e, id) ==
    /\ enr[e].pc \in {"idle", "done"}
    /\ id \in Ids
    /\ enr' = [enr EXCEPT ![e] =
                 [pc |-> "load", id |-> id, snap |-> <<>>, retries |-> 0,
                  data |-> <<>>, reply |-> "none", status |-> "none",
                  wroteStore |-> FALSE, wroteIndex |-> FALSE]]
    /\ UNCHANGED <<store, index, runs, prevRun, emb, aiCommits>>
    /\ UNCHANGED <<limVars, keyVars, hashVars, askVars, fetchVars, schemaVars, queryVars, routeVars>>

\* db.query(KnowledgeItem).filter(id == item_id).first(): the session's
\* copy of the row, of which the job later reads code_snippets.
EnrLoad(e) ==
    /\ enr[e].pc = "load"
    /\ enr' = [enr EXCEPT ![e].pc = "call",
                          ![e].snap = [code_snippets |-> store[enr[e].id].code_snippets]]
    /\ UNCHANGED <<store, index, runs, prevRun, emb, aiCommits>>
    /\ UNCHANGED <<limVars, keyVars, hashVars, askVars, fetchVars, schemaVars, queryVars, routeVars>>

\* A mutant of EnrCallFails: the job is re-queued however often it was.
EnrCallFails_alwaysRetry(e) ==
    /\ enr[e].pc = "call"
    /\ enr' = [enr EXCEPT ![e].pc = "retry", ![e].snap = <<>>]
    /\ UNCHANGED <<store, index, runs, prevRun, emb, aiCommits>>
    /\ UNCHANGED <<limVars, keyVars, hashVars, askVars, fetchVars, schemaVars, queryVars, routeVars>>

\* The provider call fails: self.retry(exc=e, countdown=60) re-queues the
\* job, or re-raises once max_retries is used up.  The count of retries is
\* read by self.retry alone: it is kept until the call has returned.
EnrCallFails(e) ==
    /\ enr[e].pc = "call"
    /\ enr' = IF enr[e].retries < max_retries
              THEN [enr EXCEPT ![e].pc = "retry", ![e].snap = <<>>]
              ELSE [enr EXCEPT ![e].pc = "done", ![e].status = "failed",
                               ![e].snap = <<>>, ![e].retries = 0]
    /\ UNCHANGED <<store, index, runs, prevRun, emb, aiCommits>>
    /\ UNCHANGED <<limVars, keyVars, hashVars, askVars, fetchVars, schemaVars, queryVars, routeVars>>

\* The provider answers; the reply is parsed and validated.
EnrCallReplies(e, reply) ==
    /\ enr[e].pc = "call"
    /\ LET outcome == ParseOutcome(reply.kind)
       IN  enr' = IF outcome = "ok"
                  THEN [enr EXCEPT ![e].pc = "commit", ![e].reply = reply.kind,
                                   ![e].data = reply.data, ![e].retries = 0]
                  ELSE [enr EXCEPT ![e].pc = "done", ![e].reply = reply.kind,
                                   ![e].status = outcome, ![e].snap = <<>>,
                                   ![e].retries = 0]
    /\ UNCHANGED <<store, index, runs, prevRun, emb, aiCommits>>
    /\ UNCHANGED <<limVars, keyVars, hashVars, askVars, fetchVars, schemaVars, queryVars, routeVars>>

\* The retry is delivered after its countdown.
EnrRetry(e) ==
    /\ enr[e].pc = "retry"
    /\ enr' = [enr EXCEPT ![e].pc = "load", ![e].retries = @ + 1]
    /\ UNCHANGED <<store, index, runs, prevRun, emb, aiCommits>>
    /\ UNCHANGED <<limVars, keyVars, hashVars, askVars, fetchVars, schemaVars, queryVars, routeVars>>

\* The AI fields and the merged snippets are assigned and committed; a
\* failing commit reaches the outer handler: rollback, re-raise.
EnrCommit(e, dbFails) ==
    /\ enr[e].pc = "commit"
    /\ LET j == enr[e]
       IN  IF dbFails
           THEN /\ enr' = [enr EXCEPT ![e].pc = "done", ![e].status = "raised",
                                      ![e].snap = <<>>, ![e].data = <<>>]
                /\ UNCHANGED <<store, aiCommits>>
           ELSE /\ store' = [store EXCEPT ![j.id] =
                                EnrichedRow(@, j.snap, j.data, "now")]
                /\ aiCommits' = aiCommits \cup {j.id}
                /\ enr' = [enr EXCEPT ![e].pc = "index", ![e].wroteStore = TRUE,
                                      ![e].snap = <<>>, ![e].data = <<>>]
    /\ UNCHANGED <<index, runs, prevRun, emb>>
    /\ UNCHANGED <<limVars, keyVars, hashVars, askVars, fetchVars, schemaVars, queryVars, routeVars>>

\* A mutant of IndexedStatus: the failure of the index write fails the job.
IndexedStatus_strict(indexOk) == IF indexOk THEN "success" ELSE "raised"

\* What the job returns after its index write: the except clause around
\* the write logs a warning and the job goes on to return success.
IndexedStatus(indexOk) == "success"

\* es.index(...) of the whole document; its failure is logged only.
EnrIndex(e, indexOk) ==
    /\ enr[e].pc = "index"
    /\ index' = IF indexOk
                THEN PutDoc(index, enr[e].id, EnrichDoc(store[enr[e].id]))
                ELSE index
    /\ enr' = [enr EXCEPT ![e].pc = "done", ![e].status = IndexedStatus(indexOk),
                          ![e].wroteIndex = indexOk]
    /\ UNCHANGED <<store, runs, prevRun, emb, aiCommits>>
    /\ UNCHANGED <<limVars, keyVars, hashVars, askVars, fetchVars, schemaVars, queryVars, routeVars>>

\* ---- embed_knowledge_item --------------------------------------------

\* The vector the provider returns for build_embedding_text(item): a value
\* that stands for the text it was computed from.
EmbeddingOf(row) ==
    [title |-> row.title, summary |-> row.ai_summary, body_text |-> row.body_text,
     code |-> [i \in 1..Min({3, Len(row.code_snippets)}) |->
                 <<row.code_snippets[i].language, row.code_snippets[i].code>>]]

EmbDeliver(m, id) ==
    /\ emb[m].pc \in {"idle", "done"}
    /\ id \in Ids
    /\ emb' = [emb EXCEPT ![m] = [pc |-> "load", id |-> id, retries |-> 0,
                                  vec |-> <<>>, status |-> "none",
                                  wroteIndex |-> FALSE]]
    /\ UNCHANGED <<store, index, runs, prevRun, enr, aiCommits>>
    /\ UNCHANGED <<limVars, keyVars, hashVars, askVars, fetchVars, schemaVars, queryVars, routeVars>>

\* The item is read, its text built and the provider called: the call
\* gives a vector, or fails and the job is retried (max_retries times).
EmbCall(m, ok) ==
    /\ emb[m].pc = "load"
    /\ emb' = IF ok
              THEN [emb EXCEPT ![m].pc = "commit", ![m].retries = 0,
                               ![m].vec = EmbeddingOf(store[emb[m].id])]
              ELSE IF emb[m].retries < max_retries
              THEN [emb EXCEPT ![m].retries = @ + 1]
              ELSE [emb EXCEPT ![m].pc = "done", ![m].status = "failed",
                               ![m].retries = 0]
    /\ UNCHANGED <<store, index, runs, prevRun, enr, aiCommits>>
    /\ UNCHANGED <<limVars, keyVars, hashVars, askVars, fetchVars, schemaVars, queryVars, routeVars>>

\* item.embedding = embedding; db.commit()
EmbCommit(m, dbFails) ==
    /\ emb[m].pc = "commit"
    /\ IF dbFails
       THEN /\ emb' = [emb EXCEPT ![m].pc = "done", ![m].status = "raised",
                             ![m].vec = <<>>]
            /\ UNCHANGED store
       ELSE /\ store' = [store EXCEPT ![emb[m].id].embedding = Some(emb[m].vec)]
            /\ emb' = [emb EXCEPT ![m].pc = "index"]
    /\ UNCHANGED <<index, runs, prevRun, enr, aiCommits>>
    /\ UNCHANGED <<limVars, keyVars, hashVars, askVars, fetchVars, schemaVars, queryVars, routeVars>>

\* es.update(..., {"doc": {"embedding": ...}, "doc_as_upsert": True}): the
\* document's embedding is set, the document created when it is missing.
WithEmbedding(idx, id, vec) ==
    LET old == IF id \in DOMAIN idx THEN idx[id] ELSE <<>>
    IN  [f \in DOMAIN old \cup {"embedding"} |->
            IF f = "embedding" THEN Some(vec) ELSE old[f]]

EmbIndex(m, indexOk) ==
    /\ emb[m].pc = "index"
    /\ index' = IF indexOk
                THEN PutDoc(index, emb[m].id, WithEmbedding(index, emb[m].id, emb[m].vec))
                ELSE index
    /\ emb' = [emb EXCEPT ![m].pc = "done", ![m].status = IndexedStatus(indexOk),
                          ![m].vec = <<>>, ![m].wroteIndex = indexOk]
    /\ UNCHANGED <<store, runs, prevRun, enr, aiCommits>>
    /\ UNCHANGED <<limVars, keyVars, hashVars, askVars, fetchVars, schemaVars, queryVars, routeVars>>

\* The steps of ingestion worker w, and those of the AI jobs.
IngestStep(w, lists) ==
    \/ \E list \in lists : StartRun(w, list)
    \/ \E fault \in LookupFaults : LookupStep(w, fault)
    \/ \E dbFails \in BOOLEAN : CommitStep(w, dbFails)
    \/ \E indexOk \in BOOLEAN : IndexStep(w, indexOk)

EnrichStep(e) ==
    \/ \E id \in Ids : EnrDeliver(e, id)
    \/ EnrLoad(e)
    \/ EnrCallFails(e)
    \/ \E reply \in Replies : EnrCallReplies(e, reply)
    \/ EnrRetry(e)
    \/ \E dbFails \in BOOLEAN : EnrCommit(e, dbFails)
    \/ \E indexOk \in BOOLEAN : EnrIndex(e, indexOk)

EmbedStep(m) ==
    \/ \E id \in Ids : EmbDeliver(m, id)
    \/ \E ok \in BOOLEAN : EmbCall(m, ok)
    \/ \E dbFails \in BOOLEAN : EmbCommit(m, dbFails)
    \/ \E indexOk \in BOOLEAN : EmbIndex(m, indexOk)

\* One ingestion worker beside the enrichment worker.
StoreNext ==
    \/ \E w \in SoloWorker : IngestStep(w, RawLists)
    \/ \E e \in EnrWorkers : EnrichStep(e)

\* The enrichment and the embedding worker on one item, which an ingestion
\* worker stores and re-ingests unchanged.
JobsNext ==
    \/ \E w \in SoloWorker : IngestStep(w, JobsLists)
    \/ \E e \in EnrWorkers : EnrichStep(e)
    \/ \E m \in EmbWorkers : EmbedStep(m)

\* Concurrent ingestion runs.
RaceNext == \E w \in Workers : IngestStep(w, RaceLists)

\* The record an earlier run stored for the page, as the store can hold it
\* when a later run starts: enriched or not, embedded or not (before or
\* after the enrichment).
StoredBase == NewRow(1, process_item(RawItem(UrlA, Content1)), 1)
StoredRows ==
    LET enriched == {EnrichedRow(StoredBase, [code_snippets |-> StoredBase.code_snippets],
                                 data, "now") : data \in EnrichmentData}
    IN  UNION {{[row EXCEPT !.embedding = v] :
                   v \in {Null, Some(EmbeddingOf(StoredBase)), Some(EmbeddingOf(row))}} :
               row \in {StoredBase} \cup enriched}

\* The store holds that record, every index write so far has failed and
\* no task is under way.
InitStored ==
    /\ store \in {<<row>> : row \in StoredRows}
    /\ index = <<>>
    /\ runs = [w \in Workers |-> IdleRun]
    /\ prevRun = [list |-> <<>>, clean |-> FALSE]
    /\ enr = [e \in EnrWorkers |->
                [pc |-> "idle", id |-> 0, snap |-> <<>>, retries |-> 0, data |-> <<>>,
                 reply |-> "none", status |-> "none", wroteStore |-> FALSE,
                 wroteIndex |-> FALSE]]
    /\ emb = [m \in EmbWorkers |->
                [pc |-> "idle", id |-> 0, retries |-> 0, vec |-> <<>>,
                 status |-> "none", wroteIndex |-> FALSE]]
    /\ aiCommits = {id \in DOMAIN store : store[id].ai_extracted_at # Null}

\* What fetch_items() returns in SpecIngest: up to MaxList items of two
\* pages.
IngestLists == UNION {[1..k -> RaceItems] : k \in 1..MaxList}

\* Ingestion runs of one worker, from an empty store.
IngestNext == \E w \in SoloWorker : IngestStep(w, IngestLists)

\* Ingestion runs over a store that holds the page.
UpdateNext == \E w \in SoloWorker : IngestStep(w, RawLists)

(***************************************************************************)
(* ask_question (app/api/ask.py).  Confidence is counted in tenths.        *)
(***************************************************************************)
MaxTopK == 2

DocPool == {"d1", "d2", "d3"}
\* The _source of a hit: the documents ingestion and enrichment index have
\* all four cited fields, the one an embedding upsert created has none.
Hit(d)  == IF d = "d3" THEN [embedding |-> "vec"]
           ELSE [id |-> d, title |-> d, source_url |-> d, source_name |-> "src"]

\* item.get(key, default)
ItemGet(item, key, default) == IF key \in DOMAIN item THEN item[key] ELSE default

\* The item lists a search of page size `size` can return: at most `size`
\* distinct documents, in ranking order.
Retrievals(size) ==
    {s \in UNION {[1..k -> DocPool] : k \in 0..size} :
        \A i, j \in 1..Len(s) : i # j => s[i] # s[j]}

IdleAsk == [pc |-> "idle", top_k |-> 0, semantic |-> FALSE, hybrid |-> FALSE,
            query_embedding |-> Null, items |-> <<>>, embedCalls |-> 0,
            acquires |-> 0, textCalls |-> 0, reply |-> "none", result |-> <<>>]

InitAsk == ask = IdleAsk

\* A mutant of NoItems: the empty retrieval is not told apart.
NoItems_never(items) == FALSE

\* "if not items:"
NoItems(items) == items = <<>>

NoAnswer == [kind |-> "answer", fallback |-> FALSE, confidence |-> 0,
             citations |-> <<>>, matched_items |-> <<>>]

\* A mutant of Citations: the numbering starts at 0.
Citations_zeroBased(items) ==
    [i \in 1..Len(items) |->
        [number |-> i - 1, title |-> ItemGet(items[i], "title", "Untitled"),
         source_url |-> ItemGet(items[i], "source_url", ""),
         source_name |-> ItemGet(items[i], "source_name", ""),
         id |-> ItemGet(items[i], "id", "")]]

\* The citation list: one entry per item, numbered from 1.
Citations(items) ==
    [i \in 1..Len(items) |->
        [number |-> i, title |-> ItemGet(items[i], "title", "Untitled"),
         source_url |-> ItemGet(items[i], "source_url", ""),
         source_name |-> ItemGet(items[i], "source_name", ""),
         id |-> ItemGet(items[i], "id", "")]]

\* ask_question is called; without provider credentials it raises.
AskCall(top_k, semantic, available) ==
    /\ ask.pc \in {"idle", "done"}
    /\ ask' = IF ~available
              THEN [IdleAsk EXCEPT !.pc = "done", !.top_k = top_k,
                                   !.result = [kind |-> "ValueError"]]
              ELSE [IdleAsk EXCEPT !.pc = IF semantic THEN "embed" ELSE "retrieve",
                                   !.top_k = top_k, !.semantic = semantic]
    /\ UNCHANGED <<limVars, keyVars, hashVars, storeVars, fetchVars, schemaVars, queryVars, routeVars>>

\* A mutant of AskEmbed: a failed embedding leaves semantic set.
AskEmbed_keepsSemantic(ok) ==
    /\ ask.pc = "embed"
    /\ ask' = IF ok
              THEN [ask EXCEPT !.pc = "retrieve", !.embedCalls = @ + 1,
                               !.query_embedding = Some("qvec")]
              ELSE [ask EXCEPT !.pc = "retrieve", !.embedCalls = @ + 1]
    /\ UNCHANGED <<limVars, keyVars, hashVars, storeVars, fetchVars, schemaVars, queryVars, routeVars>>

\* provider.generate_embedding(question); on any error semantic = False.
AskEmbed(ok) ==
    /\ ask.pc = "embed"
    /\ ask' = IF ok
              THEN [ask EXCEPT !.pc = "retrieve", !.embedCalls = @ + 1,
                               !.query_embedding = Some("qvec")]
              ELSE [ask EXCEPT !.pc = "retrieve", !.embedCalls = @ + 1,
                               !.semantic = FALSE]
    /\ UNCHANGED <<limVars, keyVars, hashVars, storeVars, fetchVars, schemaVars, queryVars, routeVars>>

\* search_knowledge_items(..., semantic, hybrid = semantic, size = top_k),
\* then the early return when nothing was found.
AskRetrieve(ids) ==
    /\ ask.pc = "retrieve"
    /\ ids \in Retrievals(ask.top_k)
    /\ LET items == [i \in 1..Len(ids) |-> Hit(ids[i])]
       IN  ask' = IF NoItems(items)
                  THEN [ask EXCEPT !.pc = "done", !.hybrid = ask.semantic,
                                   !.items = items, !.result = NoAnswer]
                  ELSE [ask EXCEPT !.pc = "acquire", !.hybrid = ask.semantic,
                                   !.items = items]
    /\ UNCHANGED <<limVars, keyVars, hashVars, storeVars, fetchVars, schemaVars, queryVars, routeVars>>

\* await rate_limiter.acquire()
AskAcquire ==
    /\ ask.pc = "acquire"
    /\ ask' = [ask EXCEPT !.pc = "generate", !.acquires = @ + 1]
    /\ UNCHANGED <<limVars, keyVars, hashVars, storeVars, fetchVars, schemaVars, queryVars, routeVars>>

AskReplies ==
    [kind : {"api_error", "bad_json", "bad_schema", "non_object"}, confidence : {0}]
    \cup [kind : {"valid"}, confidence : {0, 5, 10}]

\* provider.generate_text(...), the parse of its reply, the citations and
\* the return.  JSONDecodeError and ValueError give the fallback answer;
\* any other exception (a provider error, the TypeError of "**" on a value
\* that is no mapping) is re-raised.
AskGenerate(reply) ==
    /\ ask.pc = "generate"
    /\ LET answered(conf, fb) ==
               [kind |-> "answer", fallback |-> fb, confidence |-> conf,
                citations |-> Citations(ask.items),
                matched_items |-> SubSeq(ask.items, 1, Min({ask.top_k, Len(ask.items)}))]
       IN  ask' = [ask EXCEPT
                     !.pc = "done", !.textCalls = @ + 1,
                     !.reply = reply.kind,
                     !.result =
                        IF reply.kind \in {"api_error", "non_object"}
                        THEN [kind |-> "raised"]
                        ELSE IF reply.kind \in {"bad_json", "bad_schema"}
                        THEN answered(5, TRUE)
                        ELSE answered(reply.confidence, FALSE)]
    /\ UNCHANGED <<limVars, keyVars, hashVars, storeVars, fetchVars, schemaVars, queryVars, routeVars>>

AskNext ==
    \/ \E k \in 1..MaxTopK, semantic \in BOOLEAN, available \in BOOLEAN :
          AskCall(k, semantic, available)
    \/ \E ok \in BOOLEAN : AskEmbed(ok)
    \/ \E ids \in Retrievals(MaxTopK) : AskRetrieve(ids)
    \/ AskAcquire
    \/ \E reply \in AskReplies : AskGenerate(reply)

(***************************************************************************)
(* fetch_url (app/utils/http_client.py) with the per-domain RateLimiter    *)
(* (app/utils/rate_limit.py), one domain.  The limiter is the module's     *)
(* global: every caller of fetch_url in the process shares it.             *)
(***************************************************************************)
MaxFetchClock      == 4
fetch_max_requests == 2
fetch_window       == 3
max_attempts       == 3     \* stop=stop_after_attempt(3)
BackoffTicks       == 1     \* wait_exponential: the pause before a retry
MaxSent            == 3     \* no new call once this many requests were sent

FetchCallers == {"f1", "f2"}     \* threads calling fetch_url
SoloFetcher  == {"f1"}

\* One execution of fetch_url: the outcomes of its attempts so far, and how
\* often it has called wait_if_needed and record_request.
IdleFetch == [pc |-> "idle", outcomes |-> <<>>, result |-> "none",
              checks |-> 0, records |-> 0]

InitFetch ==
    /\ fetch = [c \in FetchCallers |-> IdleFetch]
    /\ domainRequests = <<>>
    /\ fclock = 0
    /\ sent = <<>>

\* can_make_request's eviction: the timestamps newer than window_start.
DomainInWindow(reqs, now) == SelectSeq(reqs, LAMBDA t : t > now - fetch_window)

FetchCall(c) ==
    /\ fetch[c].pc \in {"idle", "done"}
    /\ fclock < MaxFetchClock
    /\ Len(sent) < MaxSent
    /\ fetch' = [fetch EXCEPT ![c] = [IdleFetch EXCEPT !.pc = "limit"]]
    /\ UNCHANGED <<domainRequests, fclock, sent>>
    /\ UNCHANGED <<limVars, keyVars, hashVars, storeVars, askVars, schemaVars, queryVars, routeVars>>

\* rate_limiter.wait_if_needed(url): evict, and when the domain is at its
\* limit sleep until the oldest timestamp leaves the window.  The limiter
\* holds no lock and the caller goes on to the request without a second
\* look at the list.
FetchWaitIfNeeded(c) ==
    /\ fetch[c].pc = "limit"
    /\ LET kept == DomainInWindow(domainRequests, fclock)
       IN  /\ domainRequests' = kept
           /\ fclock' = IF Len(kept) < fetch_max_requests \/ kept = <<>>
                        THEN fclock
                        ELSE fclock + Max2(0, SeqMin(kept) + fetch_window - fclock)
    /\ fetch' = [fetch EXCEPT ![c].pc = "request", ![c].checks = @ + 1]
    /\ UNCHANGED sent
    /\ UNCHANGED <<limVars, keyVars, hashVars, storeVars, askVars, schemaVars, queryVars, routeVars>>

\* retry_if_exception_type((RequestException, Timeout)): the HTTPError of
\* raise_for_status() is a RequestException too.
Retried(outcome) == outcome \in {"network_error", "http_error"}

Recorded_always(outcome) == TRUE

\* rate_limiter.record_request(url) is reached only when requests.get
\* returned and raise_for_status() did not raise.
Recorded(outcome) == outcome = "ok"

\* requests.get and raise_for_status: a response, an HTTP error status or a
\* network failure.  A response is recorded with the limiter and returned;
\* a retried failure leads to another attempt, and after the last attempt
\* tenacity raises RetryError.
FetchRequest(c, outcome) ==
    /\ fetch[c].pc = "request"
    /\ LET tried == Append(fetch[c].outcomes, outcome)
           rec   == IF Recorded(outcome) THEN fetch[c].records + 1
                    ELSE fetch[c].records
           f     == [fetch[c] EXCEPT !.outcomes = tried, !.records = rec]
       IN  fetch' = [fetch EXCEPT ![c] =
             IF outcome = "ok"
             THEN [f EXCEPT !.pc = "done", !.result = "response"]
             ELSE IF ~Retried(outcome)
             THEN [f EXCEPT !.pc = "done",
                            !.result = IF outcome = "http_error"
                                       THEN "HTTPError" ELSE "ConnectionError"]
             ELSE IF Len(tried) < max_attempts
             THEN [f EXCEPT !.pc = "backoff"]
             ELSE [f EXCEPT !.pc = "done", !.result = "RetryError"]]
    /\ domainRequests' = IF Recorded(outcome) THEN Append(domainRequests, fclock)
                         ELSE domainRequests
    /\ sent' = Append(sent, [at |-> fclock, recorded |-> Recorded(outcome)])
    /\ UNCHANGED fclock
    /\ UNCHANGED <<limVars, keyVars, hashVars, storeVars, askVars, schemaVars, queryVars, routeVars>>

\* tenacity sleeps, then calls fetch_url again.
FetchBackoff(c) ==
    /\ fetch[c].pc = "backoff"
    /\ fclock' = fclock + BackoffTicks
    /\ fetch' = [fetch EXCEPT ![c].pc = "limit"]
    /\ UNCHANGED <<domainRequests, sent>>
    /\ UNCHANGED <<limVars, keyVars, hashVars, storeVars, askVars, schemaVars, queryVars, routeVars>>

FetchTick ==
    /\ \A c \in FetchCallers : fetch[c].pc \in {"idle", "done"}
    /\ fclock < MaxFetchClock
    /\ fclock' = fclock + 1
    /\ UNCHANGED <<fetch, domainRequests, sent>>
    /\ UNCHANGED <<limVars, keyVars, hashVars, storeVars, askVars, schemaVars, queryVars, routeVars>>

FetchStep(c) ==
    \/ FetchCall(c)
    \/ FetchWaitIfNeeded(c)
    \/ \E outcome \in {"ok", "http_error", "network_error"} : FetchRequest(c, outcome)
    \/ FetchBackoff(c)

\* One sequential caller.
FetchNext ==
    \/ \E c \in SoloFetcher : FetchStep(c)
    \/ FetchTick

\* Two threads of one process.
FetchRaceNext ==
    \/ \E c \in FetchCallers : FetchStep(c)
    \/ FetchTick

(***************************************************************************)
(* KnowledgeItemEnrichment (app/ai/schemas.py) applied to one parsed reply, *)
(* and the use the enrichment job makes of the validated quality score.    *)
(* Scores are counted in tenths.                                           *)
(***************************************************************************)
MaxTagLen == 3      \* characters of a tag
MaxTags   == 2      \* tags of a reply
quality_ge == 0     \* ge=0.0
quality_le == 10    \* le=1.0
max_items  == 15

TagChars      == {"A", "a", " ", "\t"}
Whitespace    == {" ", "\t"}
QualityScores == {-5, -1, 0, 5, 10, 11, 15}

TagStrs ==
    {Canon([i \in 1..Len(cs) |-> Run(cs[i], 1)]) :
        cs \in UNION {[1..k -> TagChars] : k \in 0..MaxTagLen}}
TagLists == UNION {[1..k -> TagStrs] : k \in 0..MaxTags}

InitSchema ==
    /\ kiIn \in [quality_score : QualityScores, tags : TagLists]
    /\ kiOut = <<>>

IdleSchema ==
    /\ kiIn = [quality_score |-> 0, tags |-> <<>>]
    /\ kiOut = <<>>

\* str.strip(): leading and trailing whitespace removed.
RECURSIVE Strip(_)
Strip(s) ==
    IF s # <<>> /\ s[1].c \in Whitespace THEN Strip(Tail(s))
    ELSE IF s # <<>> /\ s[Len(s)].c \in Whitespace THEN Strip(SubSeq(s, 1, Len(s) - 1))
    ELSE s

\* str.replace(' ', '-')
ReplaceSpace(s) ==
    Canon([i \in 1..Len(s) |-> Run(IF s[i].c = " " THEN "-" ELSE s[i].c, s[i].n)])

\* A mutant of NormalizeTag: the case is kept.
NormalizeTag_keepCase(tag) == ReplaceSpace(Strip(tag))

\* tag.lower().strip().replace(' ', '-')
NormalizeTag(tag) == ReplaceSpace(Strip(Lower(tag)))

\* [... for tag in v if tag.strip()]
validate_tags(v) ==
    LET kept == SelectSeq(v, LAMBDA tag : Strip(tag) # EmptyStr)
    IN  [i \in 1..Len(kept) |-> NormalizeTag(kept[i])]

\* A mutant of InRange: the bounds are exclusive.
InRange_exclusive(q) == q > quality_ge /\ q < quality_le

\* Field(..., ge=0.0, le=1.0)
InRange(q) == q >= quality_ge /\ q <= quality_le

\* KnowledgeItemEnrichment(**data): the field constraints, then the tags
\* validator.
KnowledgeItemEnrichment(data) ==
    IF InRange(data.quality_score) /\ Len(data.tags) <= max_items
    THEN [status |-> "ok", quality_score |-> data.quality_score,
          tags |-> validate_tags(data.tags)]
    ELSE [status |-> "ValidationError"]

\* The enrichment job validates the reply; item.ai_quality_score is
\* assigned from the validated object only.
SchemaApply ==
    /\ kiOut = <<>>
    /\ LET enrichment == KnowledgeItemEnrichment(kiIn)
       IN  kiOut' = <<[enrichment |-> enrichment,
                       ai_quality_score |-> IF enrichment.status = "ok"
                                            THEN Some(enrichment.quality_score)
                                            ELSE Null]>>
    /\ UNCHANGED kiIn
    /\ UNCHANGED <<limVars, keyVars, hashVars, storeVars, askVars, fetchVars, queryVars, routeVars>>

(***************************************************************************)
(* build_search_query (app/api/search.py) applied to one set of arguments. *)
(* An optional argument is Null or Some(v); a clause list that is empty    *)
(* stands for a key the built query does not have.                         *)
(***************************************************************************)
MaxPage == 2

QueryArgs ==
    [q : {Null, Some(<<>>), Some(Str1("a"))},
     source_type : {Null, Some(Str1("a"))},
     primary_language : {Null, Some(Str1("A"))},
     framework : {Null, Some(Str1("A"))},
     tags : {Null, Some(<<>>), Some(<<Str1("a")>>)},
     from_date : {Null, Some(Str1("a"))},
     semantic : BOOLEAN, hybrid : BOOLEAN,
     query_embedding : {Null, Some(<<>>), Some(<<1, 0>>)},
     page : 1..MaxPage, size : {20}]

IdleArgs == [q |-> Null, source_type |-> Null, primary_language |-> Null,
             framework |-> Null, tags |-> Null, from_date |-> Null,
             semantic |-> FALSE, hybrid |-> FALSE, query_embedding |-> Null,
             page |-> 1, size |-> 20]

InitQuery ==
    /\ sqIn \in QueryArgs
    /\ sqOut = <<>>

IdleQuery ==
    /\ sqIn = IdleArgs
    /\ sqOut = <<>>

\* "if x:" on an optional string or list: neither None nor empty.
Truthy(x) == x # Null /\ x[1] # <<>>

vector_query(query_embedding) ==
    [script_score |-> [query |-> "match_all",
                       source |-> "cosineSimilarity + 1.0",
                       query_vector |-> query_embedding]]

keyword_query(q) ==
    [multi_match |-> [query |-> q, type |-> "best_fields", fuzziness |-> "AUTO"]]

must_clauses(a) ==
    (IF (a.semantic \/ a.hybrid) /\ Truthy(a.query_embedding)
        /\ a.semantic /\ ~a.hybrid
     THEN <<vector_query(a.query_embedding[1])>> ELSE <<>>)
    \o (IF Truthy(a.q)
        THEN IF a.semantic /\ ~a.hybrid THEN <<>>
             ELSE IF a.hybrid THEN <<>>
             ELSE <<keyword_query(a.q[1])>>
        ELSE IF ~a.semantic THEN <<[match_all |-> TRUE]>> ELSE <<>>)

\* A mutant of should_clauses: in hybrid mode the keyword matcher is left out.
should_clauses_vectorOnly(a) ==
    IF (a.semantic \/ a.hybrid) /\ Truthy(a.query_embedding)
       /\ ~(a.semantic /\ ~a.hybrid) /\ a.hybrid
    THEN <<vector_query(a.query_embedding[1])>> ELSE <<>>

should_clauses(a) ==
    (IF (a.semantic \/ a.hybrid) /\ Truthy(a.query_embedding)
        /\ ~(a.semantic /\ ~a.hybrid) /\ a.hybrid
     THEN <<vector_query(a.query_embedding[1])>> ELSE <<>>)
    \o (IF Truthy(a.q) /\ ~(a.semantic /\ ~a.hybrid) /\ a.hybrid
        THEN <<keyword_query(a.q[1])>> ELSE <<>>)

filter_clauses(a) ==
    (IF Truthy(a.source_type)
     THEN <<[term |-> [source_type |-> a.source_type[1]]]>> ELSE <<>>)
    \o (IF Truthy(a.primary_language)
        THEN <<[term |-> [primary_language |-> Lower(a.primary_language[1])]]>>
        ELSE <<>>)
    \o (IF Truthy(a.framework)
        THEN <<[term |-> [framework |-> Lower(a.framework[1])]]>> ELSE <<>>)
    \o (IF Truthy(a.tags) THEN <<[terms |-> [tags |-> a.tags[1]]]>> ELSE <<>>)
    \o (IF Truthy(a.from_date)
        THEN <<[range |-> [published_at |-> [gte |-> a.from_date[1]]]]>>
        ELSE <<>>)

build_search_query(a) ==
    [query |-> [bool |-> [must |-> must_clauses(a),
                          should |-> should_clauses(a),
                          minimum_should_match |->
                              IF should_clauses(a) = <<>> THEN Null
                              ELSE Some(IF a.hybrid THEN 1 ELSE 0),
                          filter |-> filter_clauses(a)]],
     from |-> (a.page - 1) * a.size,
     size |-> a.size,
     sort |-> <<"published_at desc", "_score">>,
     highlight |-> Truthy(a.q)]

QueryApply ==
    /\ sqOut = <<>>
    /\ sqOut' = <<build_search_query(sqIn)>>
    /\ UNCHANGED sqIn
    /\ UNCHANGED <<limVars, keyVars, hashVars, storeVars, askVars, fetchVars, schemaVars, routeVars>>

(***************************************************************************)
(* The routes that need the AI provider (app/api/routes.py): GET /search,  *)
(* POST /ask, POST /admin/ai/enrich and POST /admin/ai/embed.  One request *)
(* is served; status is the HTTP status of its response.  The handlers are *)
(* coroutines of the server's event loop.                                  *)
(***************************************************************************)
IdleHttp == [pc |-> "idle", route |-> "none", available |-> FALSE,
             request |-> IdleArgs, status |-> 0, providerCalls |-> 0,
             enqueued |-> 0]

IdleRoute == http = IdleHttp

\* The tags parameter of /search: absent, or the pieces tags.split(',')
\* gives (the one empty piece is the empty string).
RouteTags ==
    {Null, Some(<<EmptyStr>>), Some(<<Str1("a")>>),
     Some(<<Str1(" "), <<Run(" ", 1), Run("a", 1)>> >>)}

SearchRequests ==
    [q : {Null, Some(<<>>), Some(Str1("a"))},
     source_type : {Null},
     primary_language : {Null, Some(Str1("A"))},
     framework : {Null},
     tags : RouteTags,
     from_date : {Null},
     semantic : BOOLEAN, hybrid : BOOLEAN,
     query_embedding : {Null},
     page : {1}, size : {20}]

\* [t.strip() for t in tags.split(',') if t.strip()], None when tags is
\* absent or empty.
tag_list(tags) ==
    IF tags = Null \/ tags = Some(<<EmptyStr>>) THEN Null
    ELSE Some(SelectSeq([i \in 1..Len(tags[1]) |-> Strip(tags[1][i])],
                        LAMBDA t : t # EmptyStr))

\* GET /search.  For a semantic or hybrid search with a text the embedding
\* is computed inside a try whose "except Exception" turns everything into
\* a 500, the HTTPException(400) of the unavailable provider included;
\* with an available provider asyncio.run() is called on the running loop
\* and raises before the provider is reached.  Otherwise
\* search_knowledge_items builds the query and runs it.
SearchRoute(a, available, esOk) ==
    /\ http.pc = "idle"
    /\ LET args == [a EXCEPT !.tags = tag_list(a.tags)]
           done(status) == [http EXCEPT !.pc = "done", !.route = "search",
                                        !.available = available,
                                        !.request = a, !.status = status]
       IN  IF (a.semantic \/ a.hybrid) /\ Truthy(a.q)
           THEN /\ http' = done(500)
                /\ UNCHANGED queryVars
           ELSE /\ sqIn' = args
                /\ sqOut' = <<build_search_query(args)>>
                /\ http' = done(IF esOk THEN 200 ELSE 500)
    /\ UNCHANGED <<limVars, keyVars, hashVars, storeVars, askVars, fetchVars, schemaVars>>

\* POST /ask: the provider check, before the try.
AskRouteEnter(available) ==
    /\ http.pc = "idle"
    /\ http' = IF available
               THEN [http EXCEPT !.pc = "asking", !.route = "ask",
                                 !.available = available]
               ELSE [http EXCEPT !.pc = "done", !.route = "ask",
                                 !.available = available, !.status = 400]
    /\ UNCHANGED <<limVars, keyVars, hashVars, storeVars, askVars, fetchVars, schemaVars, queryVars>>

\* await ask_question(...), with the provider the check saw.
AskRouteStep ==
    /\ http.pc = "asking"
    /\ \/ \E k \in 1..MaxTopK, semantic \in BOOLEAN :
             ask.pc = "idle" /\ AskCall(k, semantic, http.available)
       \/ \E ok \in BOOLEAN : AskEmbed(ok)
       \/ \E ids \in Retrievals(MaxTopK) : AskRetrieve(ids)
       \/ AskAcquire
       \/ \E reply \in AskReplies : AskGenerate(reply)

\* The result is returned, or "except Exception" answers 500.
AskRouteReturn ==
    /\ http.pc = "asking"
    /\ ask.pc = "done"
    /\ http' = [http EXCEPT !.pc = "done",
                            !.status = IF ask.result.kind = "answer" THEN 200 ELSE 500,
                            !.providerCalls = ask.embedCalls + ask.textCalls]
    /\ UNCHANGED <<limVars, keyVars, hashVars, storeVars, askVars, fetchVars, schemaVars, queryVars>>

\* POST /admin/ai/enrich and POST /admin/ai/embed: the provider check, the
\* query for the items to do and one delay() per item, a failed delay()
\* being logged and not counted.
AdminRoute(route, available, found, enqueued) ==
    /\ http.pc = "idle"
    /\ enqueued <= found
    /\ http' = IF available
               THEN [http EXCEPT !.pc = "done", !.route = route,
                                 !.available = available, !.status = 200,
                                 !.enqueued = enqueued]
               ELSE [http EXCEPT !.pc = "done", !.route = route,
                                 !.available = available, !.status = 400]
    /\ UNCHANGED <<limVars, keyVars, hashVars, storeVars, askVars, fetchVars, schemaVars, queryVars>>

admin_enrich(available, found, enqueued) == AdminRoute("enrich", available, found, enqueued)
admin_embed(available, found, enqueued)  == AdminRoute("embed", available, found, enqueued)

RoutesNext ==
    \/ \E a \in SearchRequests, available \in BOOLEAN, esOk \in BOOLEAN :
          SearchRoute(a, available, esOk)
    \/ \E available \in BOOLEAN : AskRouteEnter(available)
    \/ AskRouteStep
    \/ AskRouteReturn
    \/ \E available \in BOOLEAN, found \in 0..MaxList, enqueued \in 0..MaxList :
          admin_enrich(available, found, enqueued)
    \/ \E available \in BOOLEAN, found \in 0..MaxList, enqueued \in 0..MaxList :
          admin_embed(available, found, enqueued)

(***************************************************************************)
(* The properties.                                                         *)
(***************************************************************************)

\* C1 (as stated): a call of acquire() that found the window full and went
\* to sleep re-evaluates once the oldest timestamp has left the window,
\* records its timestamp and returns; it never blocks forever.
C1_SleeperReturns ==
    \A p \in Callers : (pc[p] = "sleeping") ~> (pc[p] = "returned")

\* The timestamps of returned acquire() calls inside the window (a - W, a].
GrantedIn(a) ==
    {i \in 1..Len(granted) : granted[i] > a - window_seconds /\ granted[i] <= a}

\* C2: whatever the interleaving of the callers, at most max_requests
\* acquire() calls have returned with a timestamp inside any rolling window
\* of window_seconds.
C2_WindowSafe ==
    \A a \in 0..clock : Cardinality(GrantedIn(a)) <= max_requests

\* C2's case: more calls than one window admits have returned, over two
\* windows, and a further caller is held back.
C2_Witness ==
    /\ Len(granted) > max_requests
    /\ \E p \in Callers : pc[p] = "sleeping"

\* C3: no two stored records share a dedupe_key, whatever the interleaving
\* of ingestion runs; an item whose key is stored never becomes a second
\* record.
C3_KeysUnique ==
    \A i, j \in Ids : i # j => store[i].dedupe_key # store[j].dedupe_key

\* C3's case: a run that found no record for its item is about to insert
\* it, and a concurrent run has stored that key in between.
C3_Witness ==
    \E w \in Workers :
        /\ runs[w].pc = "commit"
        /\ runs[w].existing = 0
        /\ UniqueViolation(runs[w].item.dedupe_key)

\* C4 (as stated): the second of two runs of ingest in sequence on the
\* same list, with no store failure and no other run in between, returns
\* stored == 0 and skipped == N.
C4_SecondRunSkipsAll ==
    \A w \in SoloWorker :
        (runs[w].pc = "done" /\ runs[w].repeat) =>
            /\ runs[w].stats.stored = 0
            /\ runs[w].stats.skipped = Len(runs[w].list)

\* C5: two URLs that differ only in the case of letters and in the number
\* of trailing slashes get the same dedupe key, as a raw key string and as
\* a digest.
C5_KeyInsensitive ==
    dkOut # <<>> => dkOut[1] = dkOut[2]

\* C5's case: the URLs differ in case and in trailing slashes and the key
\* string is over the limit, so the key is a digest.
C5_Witness ==
    /\ dkOut # <<>>
    /\ Lower(dkIn.url1) # Lower(dkIn.url2)
    /\ RStripSlash(dkIn.url1) # RStripSlash(dkIn.url2)
    /\ dkOut[1].kind = "sha256"

\* The content generate_content_hash is to tell apart: title, body_text and
\* the (language, code) pairs in order.
Semantic(item) ==
    [title |-> item.title, body_text |-> item.body_text,
     pairs |-> [i \in 1..Len(item.code_snippets) |->
                  <<item.code_snippets[i].language, item.code_snippets[i].code>>]]

\* C6 (as stated): two items have equal content hashes if and only if
\* their title, body_text and ordered (language, code) pairs are equal,
\* also when the content contains the delimiters.
C6_HashExact ==
    chOut # <<>> => ((chOut[1] = chOut[2]) <=> (Semantic(chIn.a) = Semantic(chIn.b)))

AIFields == {"ai_summary", "ai_tags", "ai_quality_score", "ai_extracted_at"}

\* C7: every stored record has ai_summary, ai_tags, ai_quality_score and
\* ai_extracted_at all NULL or all set, and ai_extracted_at is set exactly
\* when one enrichment commit set the AI fields together.
C7_AIFieldsAtomic ==
    \A id \in Ids :
        /\ \/ \A f \in AIFields : store[id][f] = Null
           \/ \A f \in AIFields : store[id][f] # Null
        /\ store[id].ai_extracted_at # Null <=> id \in aiCommits

\* C7's case: an enriched record whose content an ingestion run has
\* updated since: its AI fields are set, its snippets are the plain ones
\* of the update.
C7_Witness ==
    \E id \in Ids :
        /\ store[id].ai_extracted_at # Null
        /\ \A i \in 1..Len(store[id].code_snippets) :
              "intent" \notin DOMAIN store[id].code_snippets[i]

UnusableReplies == {"bad_json", "bad_schema", "non_object"}

\* C8: an enrichment invocation whose reply fails JSON parsing or schema
\* validation (JSON that is no object included) ends at once, reporting
\* the failure, with no write to the store or the index and no retry.
C8_TerminalFailure ==
    \A e \in EnrWorkers :
        enr[e].reply \in UnusableReplies =>
            /\ enr[e].pc = "done"
            /\ enr[e].status \in {"error", "raised"}
            /\ ~enr[e].wroteStore
            /\ ~enr[e].wroteIndex

\* C8's case: the reply to a retried job on a stored item was JSON that is
\* no object.
C8_Witness ==
    \E e \in EnrWorkers :
        /\ enr[e].reply = "non_object"
        /\ enr[e].id \in Ids
        /\ enr[e].status = "raised"

\* The retrieval of this invocation has returned.
Retrieved ==
    \/ ask.pc \in {"acquire", "generate"}
    \/ ask.pc = "done" /\ ask.result.kind # "ValueError"

\* C9: when the retrieval returns no item, ask_question returns confidence
\* 0, no citation and no matched item, and neither acquires a rate-limiter
\* slot nor calls generate_text.
C9_EmptyRetrieval ==
    (Retrieved /\ ask.items = <<>>) =>
        /\ ask.pc = "done"
        /\ ask.result.kind = "answer"
        /\ ask.result.confidence = 0
        /\ ask.result.citations = <<>>
        /\ ask.result.matched_items = <<>>
        /\ ask.textCalls = 0
        /\ ask.acquires = 0

\* C9's case: a semantic question whose embedding was computed and whose
\* retrieval returned nothing.
C9_Witness ==
    /\ Retrieved
    /\ ask.items = <<>>
    /\ ask.embedCalls = 1

\* C10 (as stated): an attempt the server answers with an HTTP error
\* status is the only attempt of its call, and fetch_url raises that
\* HTTPError; only network failures lead to further attempts.
C10_HttpErrorNotRetried ==
    \A c \in FetchCallers : \A i \in 1..Len(fetch[c].outcomes) :
        fetch[c].outcomes[i] = "http_error" =>
            /\ Len(fetch[c].outcomes) = 1
            /\ fetch[c].pc = "done"
            /\ fetch[c].result = "HTTPError"

\* The outcomes of the attempts of one fetch_url execution that were
\* non-error responses.
OkAttempts(f) == {i \in 1..Len(f.outcomes) : f.outcomes[i] = "ok"}

\* C11: in every execution of fetch_url each attempt, the first and every
\* retry, comes after a limiter check of its own (one wait_if_needed per
\* attempt, made before the request), and the execution has recorded
\* exactly one timestamp per attempt that returned a non-error response:
\* a failed attempt records nothing.
C11_CheckThenRecord ==
    \A c \in FetchCallers :
        /\ fetch[c].checks = Len(fetch[c].outcomes)
                              + (IF fetch[c].pc = "request" THEN 1 ELSE 0)
        /\ fetch[c].records = Cardinality(OkAttempts(fetch[c]))

\* C11's case: two failed attempts, then a retry that got a response.
C11_Witness ==
    \E c \in SoloFetcher :
        /\ fetch[c].outcomes = <<"http_error", "network_error", "ok">>
        /\ fetch[c].checks = 3
        /\ fetch[c].records = 1

\* C12: a step in which the search-index write of ingestion, of the
\* enrichment job or of the embedding job fails leaves the store as it is
\* and does not fail the operation: the ingestion run goes on with its
\* next item (or returns its stats) with no failure noted, the job ends
\* with status success, and no retry is scheduled.
C12_IndexFailureHarmless ==
    [][/\ \A w \in Workers : IndexStep(w, FALSE) =>
             /\ store' = store
             /\ runs'[w].clean = runs[w].clean
             /\ IF runs[w].pos < Len(runs[w].list)
                THEN runs'[w].pc = "lookup" /\ runs'[w].pos = runs[w].pos + 1
                ELSE runs'[w].pc = "done"
       /\ \A e \in EnrWorkers : EnrIndex(e, FALSE) =>
             /\ store' = store
             /\ enr'[e].pc = "done"
             /\ enr'[e].status = "success"
             /\ enr'[e].retries = 0
       /\ \A m \in EmbWorkers : EmbIndex(m, FALSE) =>
             /\ store' = store
             /\ emb'[m].pc = "done"
             /\ emb'[m].status = "success"
             /\ emb'[m].retries = 0]_vars

\* C12's case: the index write of the ingestion run, of the enrichment job
\* and of the embedding job of item 1 have all failed (the index is still
\* empty); the run has gone on to its second item and finished, both jobs
\* have returned success and the store holds what they committed.
C12_Witness ==
    /\ index = <<>>
    /\ \E w \in SoloWorker :
          /\ runs[w].pc = "done"
          /\ runs[w].stats.indexed = 1
          /\ runs[w].stats.processed = 2
    /\ \E e \in EnrWorkers : enr[e].status = "success" /\ ~enr[e].wroteIndex
    /\ \E m \in EmbWorkers : emb[m].status = "success"
    /\ Len(store) = 1
    /\ store[1].ai_summary # Null
    /\ store[1].embedding # Null

CitedFields == {"id", "title", "source_url", "source_name"}

\* C13: whenever ask_question returns an answer for a non-empty retrieval,
\* the parse-failure fallback included, matched_items is the retrieval in
\* its order, citations has one entry per matched item, their number is
\* at most top_k, citation i (counted from 1) has number i and carries
\* each cited field of matched item i.
C13_CitationsAligned ==
    (ask.pc = "done" /\ ask.result.kind = "answer" /\ ask.items # <<>>) =>
        LET citations     == ask.result.citations
            matched_items == ask.result.matched_items
        IN  /\ matched_items = ask.items
            /\ Len(citations) = Len(matched_items)
            /\ Len(matched_items) <= ask.top_k
            /\ \A i \in 1..Len(citations) :
                  /\ citations[i].number = i
                  /\ \A f \in CitedFields \cap DOMAIN matched_items[i] :
                        citations[i][f] = matched_items[i][f]

\* C13's case: top_k items were retrieved and the reply could not be
\* parsed, so the answer is the fallback.
C13_Witness ==
    /\ ask.pc = "done"
    /\ ask.result.kind = "answer"
    /\ ask.result.fallback
    /\ Len(ask.items) = MaxTopK
    /\ Len(ask.result.citations) = MaxTopK

\* C14: validation accepts a quality score exactly when it lies between
\* 0.0 and 1.0, both included (0 and 10 tenths), and the score the job
\* assigns to ai_quality_score is never outside that range.
C14_QualityScoreRange ==
    kiOut # <<>> =>
        /\ (kiOut[1].enrichment.status = "ok") <=> (kiIn.quality_score \in 0..10)
        /\ kiOut[1].ai_quality_score # Null =>
               kiOut[1].ai_quality_score[1] \in 0..10

\* C14's case: a reply with quality_score 1.5 was validated and rejected.
C14_Witness ==
    /\ kiOut # <<>>
    /\ kiIn.quality_score = 15
    /\ kiOut[1].enrichment.status = "ValidationError"
    /\ kiOut[1].ai_quality_score = Null

\* The entries of a tag list that are not empty and not whitespace only,
\* and the place entry j takes among them.
KeptTags(v)   == {j \in 1..Len(v) : \E i \in 1..Len(v[j]) : v[j][i].c \notin Whitespace}
TagRank(v, j) == Cardinality({i \in KeptTags(v) : i <= j})

\* C15: in a validated tag list every tag is non-empty, has no upper-case
\* letter, no leading or trailing whitespace and no space character; the
\* empty and whitespace-only entries are dropped and the others keep their
\* order; validating the result again changes nothing.
C15_TagsNormalized ==
    (kiOut # <<>> /\ kiOut[1].enrichment.status = "ok") =>
        LET tags == kiOut[1].enrichment.tags
        IN  /\ \A k \in 1..Len(tags) :
                  /\ tags[k] # EmptyStr
                  /\ \A i \in 1..Len(tags[k]) :
                        /\ tags[k][i].c # " "
                        /\ LowerChar(tags[k][i].c) = tags[k][i].c
                  /\ tags[k][1].c \notin Whitespace
                  /\ tags[k][Len(tags[k])].c \notin Whitespace
            /\ Len(tags) = Cardinality(KeptTags(kiIn.tags))
            /\ \A j \in KeptTags(kiIn.tags) :
                  tags[TagRank(kiIn.tags, j)] = ReplaceSpace(Strip(Lower(kiIn.tags[j])))
            /\ validate_tags(tags) = tags

\* C15's case: a whitespace-only entry is dropped and the tag after it,
\* with an upper-case letter and an inner space, is normalized.
C15_Witness ==
    /\ kiOut # <<>>
    /\ kiIn.tags = <<Str1(" "), <<Run("A", 1), Run(" ", 1), Run("a", 1)>>>>
    /\ kiOut[1].enrichment.status = "ok"
    /\ kiOut[1].enrichment.tags = <<<<Run("a", 1), Run("-", 1), Run("a", 1)>>>>

\* The requests of the history that fall in the window ending at time a.
SentIn(a) == {i \in 1..Len(sent) : sent[i].at > a - fetch_window /\ sent[i].at <= a}

\* C16 (as stated): with concurrent callers sharing the limiter, the
\* timestamps recorded for the domain inside any rolling window number at
\* most max_requests: no two callers pass the check on the last free slot.
C16_RecordedWithinLimit ==
    \A a \in 0..fclock :
        Cardinality({i \in SentIn(a) : sent[i].recorded}) <= fetch_max_requests

\* C17 (as stated): for one sequential caller the HTTP requests sent to
\* the domain inside any rolling window, the failed ones and the retries
\* counted too, number at most max_requests.
C17_SentWithinLimit ==
    \A a \in 0..fclock : Cardinality(SentIn(a)) <= fetch_max_requests

\* C18: an execution of an enrichment job whose provider call fails
\* writes nothing to the store or the index and the job is re-queued; a
\* delivered job is executed at most 4 times (the first execution and 3
\* retries), and the failure of the 4th ends it as failed.
C18_RetryBounded ==
    [][\A e \in EnrWorkers :
          /\ enr[e].retries + 1 <= 4
          /\ EnrCallFails(e) =>
                /\ store' = store
                /\ index' = index
                /\ IF enr[e].retries + 1 < 4
                   THEN enr'[e].pc = "retry"
                   ELSE enr'[e].pc = "done" /\ enr'[e].status = "failed"
          /\ EnrRetry(e) => enr'[e].retries = enr[e].retries + 1]_vars

\* C18's case: the provider failed in all four executions of a job, the
\* job has ended as failed and its item has no AI field.
C18_Witness ==
    \E e \in EnrWorkers :
        /\ enr[e].pc = "done"
        /\ enr[e].status = "failed"
        /\ ~enr[e].wroteStore
        /\ store[enr[e].id].ai_summary = Null
        /\ store[enr[e].id].ai_extracted_at = Null

FrameFields   == {"id", "found_at", "ai_summary", "ai_tags", "ai_primary_language",
                  "ai_framework", "ai_quality_score", "ai_extracted_at", "embedding"}
ContentFields == {"source_url", "title", "body_text", "code_snippets", "content_hash"}

\* C19: the commit of an item whose dedupe_key is stored with another
\* content_hash writes the item's content and metadata fields and its
\* content_hash to the existing record and leaves that record's id,
\* found_at, AI fields and embedding, every other record and the number of
\* records as they were.
C19_UpdateFrame ==
    [][\A w \in Workers :
          (/\ runs[w].pc = "commit"
           /\ runs[w].existing # 0
           /\ runs'[w].pc = "index") =>
              LET id   == runs[w].existing
                  item == runs[w].item
              IN  /\ store[id].content_hash # item.content_hash
                  /\ Len(store') = Len(store)
                  /\ \A f \in ContentFields : store'[id][f] = item[f]
                  /\ \A f \in FrameFields : store'[id][f] = store[id][f]
                  /\ \A other \in Ids \ {id} : store'[other] = store[other]]_vars

\* C19's case: an enriched and embedded record has just been updated with
\* the second content of its page.
C19_Witness ==
    \E w \in SoloWorker :
        /\ runs[w].pc = "index"
        /\ Len(store) = 1
        /\ store[1].title = Content2.title
        /\ store[1].code_snippets = Content2.code_snippets
        /\ store[1].found_at = 1
        /\ store[1].ai_extracted_at # Null
        /\ store[1].embedding # Null

\* C20 (as stated): once the enrichment job and the embedding job of an
\* item have both succeeded, in whichever order, and both their index
\* writes succeeded, the item's search document holds the embedding of
\* the store record.
C20_IndexHoldsEmbedding ==
    \A e \in EnrWorkers, m \in EmbWorkers :
        (/\ enr[e].pc = "done" /\ enr[e].status = "success" /\ enr[e].wroteIndex
         /\ emb[m].pc = "done" /\ emb[m].status = "success" /\ emb[m].wroteIndex
         /\ enr[e].id = emb[m].id) =>
            /\ enr[e].id \in DOMAIN index
            /\ "embedding" \in DOMAIN index[enr[e].id]
            /\ index[enr[e].id].embedding = store[enr[e].id].embedding

\* The handling of the current item of run w fails in this step: its
\* processing, its lookup or its commit.
ItemFails(w) ==
    \/ LookupStep(w, "process")
    \/ LookupStep(w, "query")
    \/ runs[w].pc = "commit" /\ runs'[w] # runs[w] /\ runs'[w].pc # "index"

\* C21: a step in which the handling of an item fails changes no stored
\* record (the items committed earlier in the run stay as they are), and
\* the run goes on with its next item or, after the last one, returns its
\* stats.
C21_FailureIsolated ==
    [][\A w \in Workers : ItemFails(w) =>
          /\ store' = store
          /\ index' = index
          /\ runs'[w].list = runs[w].list
          /\ runs'[w].stats.fetched = Len(runs[w].list)
          /\ IF runs[w].pos < Len(runs[w].list)
             THEN runs'[w].pc = "lookup" /\ runs'[w].pos = runs[w].pos + 1
             ELSE runs'[w].pc = "done"]_vars

\* C21's case: a run of two items of different pages has returned; the
\* commit of its first item failed and its second item is stored.
C21_Witness ==
    \E w \in SoloWorker :
        /\ runs[w].pc = "done"
        /\ runs[w].list = <<RawItem(UrlB, Content1), RawItem(UrlA, Content1)>>
        /\ runs[w].stats.processed = 2
        /\ runs[w].stats.stored = 2
        /\ runs[w].stats.indexed = 1
        /\ Len(store) = 1
        /\ store[1].source_url = UrlA

\* C22 (as stated): whenever items were retrieved and the reply of the
\* provider is no JSON, JSON that is no object, or an object the
\* AskResponse schema rejects, ask_question does not raise: it returns the
\* fallback answer with confidence 0.5, all citations and the matched
\* items.
C22_FallbackOnBadReply ==
    (ask.pc = "done" /\ ask.reply \in {"bad_json", "bad_schema", "non_object"}) =>
        /\ ask.result.kind = "answer"
        /\ ask.result.fallback
        /\ ask.result.confidence = 5
        /\ ask.result.citations = Citations(ask.items)
        /\ ask.result.matched_items = ask.items

\* C23: the embedding of the question never ends the invocation, failed
\* or not; the retrieval that follows a failed embedding is issued with
\* semantic and hybrid false and no query embedding, and goes on to the
\* answer steps; the retrieval that follows a successful embedding is
\* issued in hybrid mode with that embedding.
C23_EmbeddingDegrades ==
    [][/\ (ask.pc = "embed" /\ ask' # ask) => ask'.pc = "retrieve"
       /\ (ask.pc = "retrieve" /\ ask' # ask /\ ask.embedCalls = 1) =>
             IF ask.query_embedding = Null
             THEN /\ ~ask'.semantic
                  /\ ~ask'.hybrid
                  /\ ask'.query_embedding = Null
                  /\ ask'.pc \in {"acquire", "done"}
                  /\ ask'.pc = "done" => ask'.result = NoAnswer
             ELSE /\ ask'.semantic
                  /\ ask'.hybrid
                  /\ ask'.query_embedding = ask.query_embedding]_vars

\* C23's case: the embedding failed, the keyword retrieval found items and
\* the answer is being generated.
C23_Witness ==
    /\ ask.pc = "generate"
    /\ ask.embedCalls = 1
    /\ ask.query_embedding = Null
    /\ ~ask.hybrid
    /\ ask.items # <<>>

IsVector(c)  == "script_score" \in DOMAIN c
IsKeyword(c) == "multi_match" \in DOMAIN c

\* C24 (as stated): every query built with semantic = true and hybrid =
\* false has the vector-similarity scorer as its one must clause and no
\* keyword matcher in any clause, with or without a query embedding.
C24_SemanticOnlyVector ==
    (sqOut # <<>> /\ sqIn.semantic /\ ~sqIn.hybrid) =>
        LET b == sqOut[1].query.bool
        IN  /\ Len(b.must) = 1
            /\ IsVector(b.must[1])
            /\ \A i \in 1..Len(b.should) : ~IsKeyword(b.should[i])
            /\ \A i \in 1..Len(b.filter) : ~IsKeyword(b.filter[i])

\* C25: every query built with hybrid = true, a text query and a query
\* embedding has exactly the vector scorer and the keyword matcher as its
\* should clauses, minimum_should_match = 1 and no must clause, and the
\* filters given are the filter clauses and appear nowhere else.
C25_HybridClauses ==
    (sqOut # <<>> /\ sqIn.hybrid /\ Truthy(sqIn.q) /\ Truthy(sqIn.query_embedding)) =>
        LET b == sqOut[1].query.bool
        IN  /\ b.should = <<vector_query(sqIn.query_embedding[1]),
                            keyword_query(sqIn.q[1])>>
            /\ b.minimum_should_match = Some(1)
            /\ b.must = <<>>
            /\ Len(b.filter) =
                 Cardinality({f \in {"source_type", "primary_language", "framework",
                                     "tags", "from_date"} : Truthy(sqIn[f])})
            /\ \A i \in 1..Len(b.filter) :
                  ~IsVector(b.filter[i]) /\ ~IsKeyword(b.filter[i])
            /\ Truthy(sqIn.source_type) =>
                  b.filter[1] = [term |-> [source_type |-> sqIn.source_type[1]]]

\* C25's case: a hybrid query with a text, an embedding and every filter.
C25_Witness ==
    /\ sqOut # <<>>
    /\ sqIn.hybrid /\ ~sqIn.semantic
    /\ Truthy(sqIn.q) /\ Truthy(sqIn.query_embedding)
    /\ Len(sqOut[1].query.bool.filter) = 5
    /\ Len(sqOut[1].query.bool.should) = 2

\* The request needs the AI provider.
NeedsProvider ==
    \/ http.route \in {"ask", "enrich", "embed"}
    \/ /\ http.route = "search"
       /\ http.request.semantic \/ http.request.hybrid
       /\ Truthy(http.request.q)

\* C26 (as stated): with no provider credentials configured, every request
\* that needs the provider is answered 400, never 500, and no provider
\* call is made.
C26_UnavailableIs400 ==
    (http.pc = "done" /\ ~http.available /\ NeedsProvider) =>
        /\ http.status = 400
        /\ http.providerCalls = 0

EnrichmentKeys == {"intent", "dependencies", "pitfalls"}

\* C27: the commit of an enrichment with m validated entries on an item the
\* job read with n snippets stores exactly n snippets, in the same order and
\* with every key that is no enrichment key unchanged; snippet i has the
\* intent, dependencies and pitfalls of entry i when i <= m and is stored
\* as it was read when i > m; entries beyond n change nothing.
C27_PositionalMerge ==
    [][\A e \in EnrWorkers :
          (enr[e].pc = "commit" /\ enr'[e].pc = "index") =>
              LET before  == enr[e].snap.code_snippets
                  after   == store'[enr[e].id].code_snippets
                  entries == enr[e].data.code_snippets
              IN  /\ Len(after) = Len(before)
                  /\ \A i \in 1..Len(before) :
                        /\ \A f \in DOMAIN before[i] \ EnrichmentKeys :
                              f \in DOMAIN after[i] /\ after[i][f] = before[i][f]
                        /\ IF i <= Len(entries)
                           THEN /\ DOMAIN after[i] = DOMAIN before[i] \cup EnrichmentKeys
                                /\ after[i].intent = entries[i].intent
                                /\ after[i].dependencies = entries[i].dependencies
                                /\ after[i].pitfalls = entries[i].pitfalls
                           ELSE after[i] = before[i]]_vars

\* C27's case: an item of two snippets was enriched with one entry.
C27_Witness ==
    \E e \in EnrWorkers :
        /\ enr[e].pc = "index"
        /\ LET snippets == store[enr[e].id].code_snippets
           IN  /\ Len(snippets) = 2
               /\ "intent" \in DOMAIN snippets[1]
               /\ snippets[1].intent = Entry(1).intent
               /\ "intent" \notin DOMAIN snippets[2]

\* C28 (as stated): in every reachable state of the store, whatever the
\* interleaving of inserts, content updates and enrichment jobs, the
\* content_hash of each record is generate_content_hash of the title,
\* body_text and code_snippets stored in that record.
C28_HashMatchesContent ==
    \A id \in 1..Len(store) :
        store[id].content_hash =
            generate_content_hash(store[id].title, store[id].body_text,
                                  store[id].code_snippets)

\* C29 (as stated): the stats a run returns count what happened: stored is
\* the number of inserts and updates the run committed, indexed is the
\* number of its index writes that succeeded, and
\* stored + skipped <= processed <= fetched.
C29_StatsCountWhatHappened ==
    \A w \in Workers :
        runs[w].pc = "done" =>
            /\ runs[w].stats.stored = runs[w].committed
            /\ runs[w].stats.indexed = runs[w].indexWritten
            /\ runs[w].stats.stored + runs[w].stats.skipped <= runs[w].stats.processed
            /\ runs[w].stats.processed <= runs[w].stats.fetched

\* C30 (as stated): every call ask_question has sent to the provider, the
\* embedding of the question and the generation of the answer, was preceded
\* in the same invocation by a completed acquire() of its own: at every
\* moment the invocation has sent no more calls than it has completed
\* acquires.
C30_CallsGated ==
    ask.embedCalls + ask.textCalls <= ask.acquires

(***************************************************************************)
(* The specifications.                                                     *)
(***************************************************************************)
LimiterInit == InitLimiter /\ IdleKeys /\ IdleHash /\ InitStore /\ InitAsk /\ InitFetch /\ IdleSchema /\ IdleQuery /\ IdleRoute
KeysInit    == InitLimiter /\ InitKeys /\ IdleHash /\ InitStore /\ InitAsk /\ InitFetch /\ IdleSchema /\ IdleQuery /\ IdleRoute
HashInit    == InitLimiter /\ IdleKeys /\ InitHash /\ InitStore /\ InitAsk /\ InitFetch /\ IdleSchema /\ IdleQuery /\ IdleRoute
Init        == InitLimiter /\ IdleKeys /\ IdleHash /\ InitStore /\ InitAsk /\ InitFetch /\ IdleSchema /\ IdleQuery /\ IdleRoute
RaceInit    == InitLimiter /\ IdleKeys /\ IdleHash /\ InitStore /\ InitAsk /\ InitFetch /\ IdleSchema /\ IdleQuery /\ IdleRoute
AskInit     == InitLimiter /\ IdleKeys /\ IdleHash /\ InitStore /\ InitAsk /\ InitFetch /\ IdleSchema /\ IdleQuery /\ IdleRoute
JobsInit    == InitLimiter /\ IdleKeys /\ IdleHash /\ InitStore /\ InitAsk /\ InitFetch /\ IdleSchema /\ IdleQuery /\ IdleRoute
FetchInit   == InitLimiter /\ IdleKeys /\ IdleHash /\ InitStore /\ InitAsk /\ InitFetch /\ IdleSchema /\ IdleQuery /\ IdleRoute
FetchRaceInit == InitLimiter /\ IdleKeys /\ IdleHash /\ InitStore /\ InitAsk /\ InitFetch /\ IdleSchema /\ IdleQuery /\ IdleRoute
IngestInit  == InitLimiter /\ IdleKeys /\ IdleHash /\ InitStore /\ InitAsk /\ InitFetch /\ IdleSchema /\ IdleQuery /\ IdleRoute
UpdateInit  == InitLimiter /\ IdleKeys /\ IdleHash /\ InitStored /\ InitAsk /\ InitFetch /\ IdleSchema /\ IdleQuery /\ IdleRoute
QueryInit   == InitLimiter /\ IdleKeys /\ IdleHash /\ InitStore /\ InitAsk /\ InitFetch /\ IdleSchema /\ InitQuery /\ IdleRoute
RoutesInit  == InitLimiter /\ IdleKeys /\ IdleHash /\ InitStore /\ InitAsk /\ InitFetch /\ IdleSchema /\ IdleQuery /\ IdleRoute
SchemaInit  == InitLimiter /\ IdleKeys /\ IdleHash /\ InitStore /\ InitAsk /\ InitFetch /\ InitSchema /\ IdleQuery /\ IdleRoute

SpecLimiter == LimiterInit /\ [][LimiterNext]_vars

\* The event loop runs every task that can run, and time passes.
FairLimiter ==
    /\ SpecLimiter
    /\ WF_vars(Tick)
    /\ \A p \in Callers : WF_vars(Enter(p)) /\ WF_vars(Wake(p))

SpecKeys  == KeysInit /\ [][KeyApply]_vars
SpecHash  == HashInit /\ [][HashApply]_vars
Spec      == Init /\ [][StoreNext]_vars
SpecRace  == RaceInit /\ [][RaceNext]_vars
SpecJobs  == JobsInit /\ [][JobsNext]_vars
SpecAsk   == AskInit /\ [][AskNext]_vars
SpecFetch == FetchInit /\ [][FetchNext]_vars
SpecFetchRace == FetchRaceInit /\ [][FetchRaceNext]_vars
SpecIngest == IngestInit /\ [][IngestNext]_vars
SpecUpdate == UpdateInit /\ [][UpdateNext]_vars
SpecSchema == SchemaInit /\ [][SchemaApply]_vars
SpecQuery  == QueryInit /\ [][QueryApply]_vars
SpecRoutes == RoutesInit /\ [][RoutesNext]_vars
====
